---- MODULE Spec2Model ----
(***************************************************************************)
(* A model of cpp_linter/common_fs.py: the range consolidator, the FileObj *)
(* record and its queries, has_line_changes, the path filters              *)
(* (is_file_in_list, is_source_or_ignored) and get_line_cnt_from_cols.     *)
(*                                                                         *)
(* Python lists are 0-indexed, TLA+ sequences 1-indexed: an index i of the *)
(* code is written i + 1 here.  A string is a sequence of one-character    *)
(* strings.  A call's outcome is a record: [status |-> "returned",         *)
(* value |-> v] or [status |-> "raised", value |-> <exception name>].      *)
(***************************************************************************)
EXTENDS Integers, Sequences, FiniteSets

VARIABLES
    numbers,      \* argument of _consolidate_list_to_ranges
    cons_out,     \* outcome of the _consolidate_list_to_ranges call
    heap,         \* the list objects: object id -> current contents
    file,         \* the FileObj: its fields hold object ids
    held,         \* ids of the list objects the caller holds a reference to
    ret,          \* the last call on the FileObj and what it returned
    edits,        \* number of edits the caller made to lists it holds
    paths,        \* is_file_in_list: the rule list
    file_name,    \* is_file_in_list / is_source_or_ignored: the path
    ext_list,     \* is_source_or_ignored: the extensions
    ignored,      \* is_source_or_ignored: the ignored rules
    not_ignored,  \* is_source_or_ignored: the not-ignored rules
    filter_out,   \* outcome of the last filter call
    contents,     \* get_line_cnt_from_cols: the bytes of the file
    offset,       \* get_line_cnt_from_cols: the offset argument
    pos_out       \* outcome of the get_line_cnt_from_cols call

consVars == <<numbers, cons_out>>
fileVars == <<heap, file, held, ret, edits>>
listVars == <<paths, file_name, ext_list, ignored, not_ignored, filter_out>>
posVars == <<contents, offset, pos_out>>
vars == <<consVars, fileVars, listVars, posVars>>

\* The value of a variable no call has set yet.
Idle == [status |-> "idle"]

Returned(v) == [status |-> "returned", value |-> v]

Raised(e) == [status |-> "raised", value |-> e]

\* The list objects of the File Descriptor model (see there).
ObjIds == {"A", "D", "L", "E"}

\* The value of file before construction.
NoFile == [status |-> "absent"]

\* The value of ret before any call.
NoCall == [op |-> "none"]

\* All sequences over S of length at most n.
SeqsUpTo(S, n) == UNION {[1..k -> S] : k \in 0..n}

---------------------------------------------------------------------------
(* Range Consolidator: FileObj._consolidate_list_to_ranges                 *)

MaxLine == 5
MaxLen == 4

\* result[-1].append(x)
AppendToLast(result, x) ==
    [result EXCEPT ![Len(result)] = Append(result[Len(result)], x)]

\* A plausible slip: the closing end of the last range is n, not n + 1.
ConsolidateStepInclusiveEnd(result, nums, i) ==
    LET n == nums[i + 1]
        opened == IF i = 0 THEN Append(result, <<n>>)
                  ELSE IF n - 1 # nums[i]
                       THEN Append(AppendToLast(result, nums[i] + 1), <<n>>)
                       ELSE result
    IN  IF i = Len(nums) - 1 THEN AppendToLast(opened, n) ELSE opened

\* A plausible slip: a break is detected only on a gap (n - 1 > previous).
ConsolidateStepGapOnly(result, nums, i) ==
    LET n == nums[i + 1]
        opened == IF i = 0 THEN Append(result, <<n>>)
                  ELSE IF n - 1 > nums[i]
                       THEN Append(AppendToLast(result, nums[i] + 1), <<n>>)
                       ELSE result
    IN  IF i = Len(nums) - 1 THEN AppendToLast(opened, n + 1) ELSE opened

\* One iteration of the loop body, for the pair (i, n) of enumerate(numbers).
ConsolidateStep(result, nums, i) ==
    LET n == nums[i + 1]
        opened == IF i = 0 THEN Append(result, <<n>>)
                  ELSE IF n - 1 # nums[i]
                       THEN Append(AppendToLast(result, nums[i] + 1), <<n>>)
                       ELSE result
    IN  IF i = Len(nums) - 1 THEN AppendToLast(opened, n + 1) ELSE opened

RECURSIVE ConsolidateLoop(_, _, _)
ConsolidateLoop(result, nums, i) ==
    IF i >= Len(nums) THEN result
    ELSE ConsolidateLoop(ConsolidateStep(result, nums, i), nums, i + 1)

\* No statement of the function raises on a list of integers: result[-1] is
\* only used after the first iteration appended a range.
consolidate_list_to_ranges(nums) == Returned(ConsolidateLoop(<<>>, nums, 0))

\* The other components are left idle: no file object, no filter call, no
\* file to translate offsets in.
InitConsolidate ==
    /\ numbers \in SeqsUpTo(1..MaxLine, MaxLen)
    /\ cons_out = Idle
    /\ heap = [o \in ObjIds |-> <<>>]
    /\ file = NoFile
    /\ held = {}
    /\ ret = NoCall
    /\ edits = 0
    /\ paths = <<>>
    /\ file_name = <<>>
    /\ ext_list = <<>>
    /\ ignored = <<>>
    /\ not_ignored = <<>>
    /\ filter_out = Idle
    /\ contents = [readable |-> FALSE, bytes |-> <<>>]
    /\ offset = 0
    /\ pos_out = Idle

CallConsolidate ==
    /\ cons_out = Idle
    /\ cons_out' = consolidate_list_to_ranges(numbers)
    /\ UNCHANGED numbers

StrictlyIncreasing(s) == \A i \in 1..(Len(s) - 1) : s[i] < s[i + 1]

\* The integers of a list of [start, end) ranges, in order.
RECURSIVE Expand(_)
Expand(ranges) ==
    IF ranges = <<>> THEN <<>>
    ELSE [k \in 1..(ranges[1][2] - ranges[1][1]) |-> ranges[1][1] + k - 1]
         \o Expand(Tail(ranges))

AllPairs(ranges) == \A j \in 1..Len(ranges) : Len(ranges[j]) = 2

\* C1: for a strictly increasing sequence S the consolidator returns ranges
\* [start, end) with start < end, each starting strictly after the end of
\* the one before it (disjoint, ordered, never adjacent, hence minimal),
\* whose expansion is exactly S; and the four examples of the specification.
C1_ConsolidateExact ==
    /\ (cons_out # Idle /\ StrictlyIncreasing(numbers)) =>
           /\ cons_out.status = "returned"
           /\ AllPairs(cons_out.value)
           /\ \A j \in 1..Len(cons_out.value) :
                  cons_out.value[j][1] < cons_out.value[j][2]
           /\ \A j \in 1..(Len(cons_out.value) - 1) :
                  cons_out.value[j][2] < cons_out.value[j + 1][1]
           /\ Expand(cons_out.value) = numbers
    /\ cons_out # Idle =>
           /\ consolidate_list_to_ranges(<<>>) = Returned(<<>>)
           /\ consolidate_list_to_ranges(<<5>>) = Returned(<<<<5, 6>>>>)
           /\ consolidate_list_to_ranges(<<3, 4, 5, 9>>)
                  = Returned(<<<<3, 6>>, <<9, 10>>>>)
           /\ consolidate_list_to_ranges(<<1, 2, 4, 5, 6, 10>>)
                  = Returned(<<<<1, 3>>, <<4, 7>>, <<10, 11>>>>)

C1_Witness ==
    /\ numbers = <<1, 2, 4>>
    /\ cons_out = Returned(<<<<1, 3>>, <<4, 5>>>>)

\* C2 as stated: a sequence that is not strictly increasing ends in an error
\* and never yields a list of ranges.
C2_FailsFast ==
    (cons_out # Idle /\ ~StrictlyIncreasing(numbers)) => cons_out.status = "raised"

\* C2 as amended: a sequence that is not strictly increasing is not rejected.
\* The call returns a list of [start, end) pairs in which some range starts
\* before the end of the range before it.
C2_ReturnsOverlappingRanges ==
    (cons_out # Idle /\ ~StrictlyIncreasing(numbers)) =>
        /\ cons_out.status = "returned"
        /\ AllPairs(cons_out.value)
        /\ \E j \in 1..(Len(cons_out.value) - 1) :
               cons_out.value[j + 1][1] < cons_out.value[j][2]

C2_Witness ==
    /\ numbers = <<3, 3>>
    /\ cons_out = Returned(<<<<3, 4>>, <<3, 4>>>>)

---------------------------------------------------------------------------
(* File Descriptor: class FileObj, and has_line_changes.                    *)
(* A FileObj field holds a reference to a list object, as in Python: the   *)
(* constructor stores the caller's own lists, and the queries hand the     *)
(* stored objects back.  "A" and "D" are the lists the caller passes as    *)
(* additions and diff_chunks, "L" the list the constructor builds, "E" the *)
(* new empty list a query with lines_changed_only = 0 creates.             *)

MaxAdd == 4
MaxEdits == 1

\* The values of lines_changed_only the queries are called with.
Modes == {-1, 0, 1, 2, 3}

FileNames == {"demo/demo.cpp"}

Min(S) == CHOOSE x \in S : \A y \in S : x <= y

RECURSIVE SortedSeq(_)
SortedSeq(S) == IF S = {} THEN <<>> ELSE <<Min(S)>> \o SortedSeq(S \ {Min(S)})

\* What the diff parser yields as additions: strictly increasing line numbers.
AdditionLists == {SortedSeq(S) : S \in SUBSET (1..MaxAdd)}

\* What the diff parser yields as hunks: ordered, disjoint [start, end) pairs.
ChunkLists == {<<>>, <<<<1, 3>>>>, <<<<1, 3>>, <<4, 6>>>>}

\* A plausible slip: lines_added is left empty instead of being consolidated.
FileObjInitEmptyRanges(h, name, additions, diff_chunks) ==
    [heap |-> [h EXCEPT !["L"] = <<>>],
     self |-> [status |-> "constructed", name |-> name,
               additions |-> additions, diff_chunks |-> diff_chunks,
               lines_added |-> "L"]]

\* FileObj.__init__: the heap and the object after construction.  additions
\* and diff_chunks are references; lines_added is a new list.
FileObjInit(h, name, additions, diff_chunks) ==
    LET made == consolidate_list_to_ranges(h[additions])
    IN  [heap |-> [h EXCEPT !["L"] = made.value],
         self |-> [status |-> "constructed", name |-> name,
                   additions |-> additions, diff_chunks |-> diff_chunks,
                   lines_added |-> "L"]]

\* A plausible slip: the ranges are returned whatever get_ranges says.
range_of_changed_lines_always_ranges(self, lines_changed_only, get_ranges) ==
    IF lines_changed_only # 0
    THEN IF lines_changed_only = 1 THEN self.diff_chunks ELSE self.lines_added
    ELSE "E"

\* A plausible slip: the two range lists are swapped.
range_of_changed_lines_swapped(self, lines_changed_only, get_ranges) ==
    IF lines_changed_only # 0
    THEN LET ranges == IF lines_changed_only = 1 THEN self.lines_added
                       ELSE self.diff_chunks
         IN  IF get_ranges THEN ranges ELSE self.additions
    ELSE "E"

\* FileObj.range_of_changed_lines: the reference it returns.  An int is true
\* in Python exactly when it is not 0.
range_of_changed_lines(self, lines_changed_only, get_ranges) ==
    IF lines_changed_only # 0
    THEN LET ranges == IF lines_changed_only = 1 THEN self.diff_chunks
                       ELSE self.lines_added
         IN  IF get_ranges THEN ranges ELSE self.additions
    ELSE "E"

\* FileObj.serialize: a dict whose line_filter holds the stored list objects.
serialize(self) ==
    [filename |-> self.name,
     line_filter |-> [diff_chunks |-> self.diff_chunks,
                      lines_added |-> self.lines_added]]

\* A plausible slip: mode 1 looks at the additions and mode 2 at the hunks.
has_line_changes_swapped(lines_changed_only, diff_chunks, additions) ==
    \/ (lines_changed_only = 1 /\ Len(additions) > 0)
    \/ (lines_changed_only = 2 /\ Len(diff_chunks) > 0)
    \/ ~(lines_changed_only # 0)

has_line_changes(lines_changed_only, diff_chunks, additions) ==
    \/ (lines_changed_only = 1 /\ Len(diff_chunks) > 0)
    \/ (lines_changed_only = 2 /\ Len(additions) > 0)
    \/ ~(lines_changed_only # 0)

\* The caller holds the two lists the diff parser produced.
InitFileObj ==
    /\ \E a \in AdditionLists, d \in ChunkLists :
           heap = [o \in ObjIds |-> IF o = "A" THEN a ELSE IF o = "D" THEN d ELSE <<>>]
    /\ file = NoFile
    /\ held = {"A", "D"}
    /\ ret = NoCall
    /\ edits = 0
    /\ numbers = <<>>
    /\ cons_out = Idle
    /\ paths = <<>>
    /\ file_name = <<>>
    /\ ext_list = <<>>
    /\ ignored = <<>>
    /\ not_ignored = <<>>
    /\ filter_out = Idle
    /\ contents = [readable |-> FALSE, bytes |-> <<>>]
    /\ offset = 0
    /\ pos_out = Idle

\* FileObj(name, additions, diff_chunks)
Construct ==
    /\ file = NoFile
    /\ \E name \in FileNames :
           LET made == FileObjInit(heap, name, "A", "D")
           IN  /\ heap' = made.heap
               /\ file' = made.self
    /\ UNCHANGED <<held, ret, edits>>

\* file.range_of_changed_lines(lines_changed_only, get_ranges)
CallRangeOfChangedLines ==
    /\ file.status = "constructed"
    /\ \E m \in Modes, g \in BOOLEAN :
           LET r == range_of_changed_lines(file, m, g)
               h == IF r = "E" THEN [heap EXCEPT !["E"] = <<>>] ELSE heap
           IN  /\ heap' = h
               /\ ret' = [op |-> "range_of_changed_lines", mode |-> m,
                          get_ranges |-> g, ref |-> r, value |-> h[r]]
               /\ held' = held \cup {r}
    /\ UNCHANGED <<file, edits>>

\* file.serialize()
CallSerialize ==
    /\ file.status = "constructed"
    /\ ret' = [op |-> "serialize", value |-> serialize(file)]
    /\ held' = held \cup {file.diff_chunks, file.lines_added}
    /\ UNCHANGED <<heap, file, edits>>

\* has_line_changes(lines_changed_only, file.diff_chunks, file.additions)
CallHasLineChanges ==
    /\ file.status = "constructed"
    /\ \E m \in Modes :
           ret' = [op |-> "has_line_changes", mode |-> m,
                   diff_chunks |-> heap[file.diff_chunks],
                   additions |-> heap[file.additions],
                   value |-> has_line_changes(m, heap[file.diff_chunks],
                                              heap[file.additions])]
    /\ UNCHANGED <<heap, file, held, edits>>

\* What the caller may append to a list: a line number to a list of line
\* numbers, a range to a list of ranges.
AppendValues(o) == IF o \in {"A", "E"} THEN {1, MaxAdd + 1} ELSE {<<1, 2>>}

\* The caller appends to a list object it passed in or was handed back.
CallerAppend ==
    /\ file.status = "constructed"
    /\ edits < MaxEdits
    /\ \E o \in held : \E v \in AppendValues(o) :
           heap' = [heap EXCEPT ![o] = Append(@, v)]
    /\ edits' = edits + 1
    /\ UNCHANGED <<file, held, ret>>

\* The caller removes the last element of such a list.
CallerPop ==
    /\ file.status = "constructed"
    /\ edits < MaxEdits
    /\ \E o \in held :
           /\ heap[o] # <<>>
           /\ heap' = [heap EXCEPT ![o] = SubSeq(@, 1, Len(@) - 1)]
    /\ edits' = edits + 1
    /\ UNCHANGED <<file, held, ret>>

Elems(s) == {s[i] : i \in DOMAIN s}

Max(S) == CHOOSE x \in S : \A y \in S : x >= y

\* The maximal runs of consecutive integers of a set S, in increasing order,
\* each as <<first, last + 1>>.
RunsOf(S) ==
    LET starts == SortedSeq({x \in S : x - 1 \notin S})
    IN  [j \in 1..Len(starts) |->
            <<starts[j], Min({e \in (starts[j] + 1)..(Max(S) + 1) : e \notin S})>>]

LinesAddedCoverAdditions ==
    heap[file.lines_added] = RunsOf(Elems(heap[file.additions]))

\* C3 as stated: at every point of a FileObj's lifetime lines_added is the
\* list of maximal runs of the integers currently in additions, also after
\* the caller edits a list it passed in or was handed back.
C3_AlwaysCovers == file.status = "constructed" => LinesAddedCoverAdditions

\* C3 as amended: lines_added is the list of maximal runs of the integers in
\* additions after construction from a strictly increasing list and after
\* any sequence of range_of_changed_lines and serialize calls, as long as the
\* caller has edited none of the lists it passed in or was handed back.
C3_CoversWhileUnedited ==
    (file.status = "constructed" /\ edits = 0) => LinesAddedCoverAdditions

C3_Witness ==
    /\ file.status = "constructed"
    /\ edits = 0
    /\ heap[file.additions] = <<1, 2, 4>>
    /\ heap[file.lines_added] = <<<<1, 3>>, <<4, 5>>>>
    /\ ret.op = "serialize"
    /\ "E" \in held

\* C4: range_of_changed_lines returns an empty list in mode 0, diff_chunks
\* in mode 1 with ranges requested, lines_added in mode 2 with ranges
\* requested, and the additions list in mode 2 with ranges not requested.
C4_RangeTable ==
    ret.op = "range_of_changed_lines" =>
        /\ ret.mode = 0 => (ret.value = <<>> /\ ret.ref = "E")
        /\ (ret.mode = 1 /\ ret.get_ranges) => ret.ref = file.diff_chunks
        /\ (ret.mode = 2 /\ ret.get_ranges) => ret.ref = file.lines_added
        /\ (ret.mode = 2 /\ ~ret.get_ranges) => ret.ref = file.additions

C4_Witness ==
    /\ ret.op = "range_of_changed_lines"
    /\ ret.mode = 2
    /\ ret.get_ranges
    /\ ret.ref = "L"
    /\ ret.value = <<<<1, 3>>, <<4, 5>>>>

\* C5: has_line_changes is true exactly when the mode is 0, or the mode is 1
\* and diff_chunks is non-empty, or the mode is 2 and additions is non-empty;
\* it is false for any other mode, for mode 1 with empty hunks and non-empty
\* additions, and for mode 2 with non-empty hunks and empty additions.
C5_HasLineChanges ==
    ret.op = "has_line_changes" =>
        /\ ret.value \in BOOLEAN
        /\ ret.value <=> \/ ret.mode = 0
                         \/ (ret.mode = 1 /\ ret.diff_chunks # <<>>)
                         \/ (ret.mode = 2 /\ ret.additions # <<>>)
        /\ ret.mode \notin {0, 1, 2} => ret.value = FALSE
        /\ (ret.mode = 1 /\ ret.diff_chunks = <<>> /\ ret.additions # <<>>)
               => ret.value = FALSE
        /\ (ret.mode = 2 /\ ret.diff_chunks # <<>> /\ ret.additions = <<>>)
               => ret.value = FALSE

C5_Witness ==
    /\ ret.op = "has_line_changes"
    /\ ret.mode = 1
    /\ ret.diff_chunks = <<>>
    /\ ret.additions # <<>>
    /\ ret.value = FALSE

---------------------------------------------------------------------------
(* Inclusion Filter: is_file_in_list and is_source_or_ignored.              *)
(* pathlib.PurePath and os.path.commonpath are modelled as they behave on  *)
(* POSIX, where "/" is the only separator and "\" an ordinary character.   *)

MaxRuleLen == 2
MaxPathLen == 3
MaxNameLen == 3

PathChars == {"a", ".", "/"}

NameChars == {"a", "A", ".", "/"}

\* Paths with a backslash, for the replace("\\", "/") of is_file_in_list.
BackslashPaths == {<<"a", "\\", "a">>, <<"a", "\\", "a", "/", "a">>}

\* Code points, for Python's ordering of strings.
CharRank(c) ==
    CASE c = "." -> 46
      [] c = "/" -> 47
      [] c = "A" -> 65
      [] c = "\\" -> 92
      [] c = "a" -> 97

\* str.split(sep)
RECURSIVE Split(_, _)
Split(s, sep) ==
    IF \E i \in 1..Len(s) : s[i] = sep
    THEN LET i == Min({k \in 1..Len(s) : s[k] = sep})
         IN  <<SubSeq(s, 1, i - 1)>> \o Split(SubSeq(s, i + 1, Len(s)), sep)
    ELSE <<s>>

\* sep.join(parts)
RECURSIVE Join(_, _)
Join(parts, sep) ==
    IF parts = <<>> THEN <<>>
    ELSE IF Len(parts) = 1 THEN parts[1]
    ELSE parts[1] \o <<sep>> \o Join(Tail(parts), sep)

\* str.replace(old, new) for one-character strings
Replace(s, old, new) == [i \in 1..Len(s) |-> IF s[i] = old THEN new ELSE s[i]]

\* str.lstrip(ch)
RECURSIVE LStrip(_, _)
LStrip(s, ch) == IF s # <<>> /\ s[1] = ch THEN LStrip(Tail(s), ch) ELSE s

\* str.rfind(ch): the 0-based index of the last ch, -1 when there is none.
RFind(s, ch) ==
    IF \E i \in 1..Len(s) : s[i] = ch
    THEN Max({i \in 1..Len(s) : s[i] = ch}) - 1
    ELSE -1

\* The components a path parser keeps: not the empty ones, not ".".
NotCurdir(c) == c # <<>> /\ c # <<".">>

\* pathlib's root of a POSIX path: "//" for exactly two leading slashes.
PosixRoot(p) ==
    IF p # <<>> /\ p[1] = "/"
    THEN IF Len(p) - Len(LStrip(p, "/")) = 2 THEN <<"/", "/">> ELSE <<"/">>
    ELSE <<>>

\* The parts of PurePath(p) after its root.
PosixParts(p) == SelectSeq(Split(LStrip(p, "/"), "/"), NotCurdir)

\* PurePath(p).as_posix()
as_posix(p) ==
    LET str == PosixRoot(p) \o Join(PosixParts(p), "/")
    IN  IF str = <<>> THEN <<".">> ELSE str

\* PurePath(p).suffix
suffix(p) ==
    LET parts == PosixParts(p)
        name == IF parts = <<>> THEN <<>> ELSE parts[Len(parts)]
        i == RFind(name, ".")
    IN  IF 0 < i /\ i < Len(name) - 1 THEN SubSeq(name, i + 1, Len(name)) ELSE <<>>

\* Python's a < b on strings
RECURSIVE StrLess(_, _)
StrLess(a, b) ==
    IF b = <<>> THEN FALSE
    ELSE IF a = <<>> THEN TRUE
    ELSE IF a[1] # b[1] THEN CharRank(a[1]) < CharRank(b[1])
    ELSE StrLess(Tail(a), Tail(b))

\* Python's a < b on lists of strings
RECURSIVE ListLess(_, _)
ListLess(a, b) ==
    IF b = <<>> THEN FALSE
    ELSE IF a = <<>> THEN TRUE
    ELSE IF a[1] # b[1] THEN StrLess(a[1], b[1])
    ELSE ListLess(Tail(a), Tail(b))

\* The loop of commonpath: s1 up to the first component that differs from s2.
RECURSIVE CommonOf(_, _, _)
CommonOf(s1, s2, i) ==
    IF i >= Len(s1) THEN s1
    ELSE IF s1[i + 1] # s2[i + 1] THEN SubSeq(s1, 1, i)
    ELSE CommonOf(s1, s2, i + 1)

\* A plausible slip: os.path.commonprefix, which compares the two strings
\* character by character and never raises.
commonprefix(p1, p2) ==
    LET s1 == IF StrLess(p2, p1) THEN p2 ELSE p1
        s2 == IF StrLess(p2, p1) THEN p1 ELSE p2
    IN  Returned(CommonOf(s1, s2, 0))

\* os.path.commonpath([p1, p2])
commonpath(p1, p2) ==
    LET abs1 == p1 # <<>> /\ p1[1] = "/"
        abs2 == p2 # <<>> /\ p2[1] = "/"
        c1 == SelectSeq(Split(p1, "/"), NotCurdir)
        c2 == SelectSeq(Split(p2, "/"), NotCurdir)
        s1 == IF ListLess(c2, c1) THEN c2 ELSE c1
        s2 == IF ListLess(c2, c1) THEN c1 ELSE c2
        prefix == IF abs1 THEN <<"/">> ELSE <<>>
    IN  IF abs1 # abs2 THEN Raised("ValueError")
        ELSE Returned(prefix \o Join(CommonOf(s1, s2, 0), "/"))

\* The for loop of is_file_in_list from rule i (0-based) on.
RECURSIVE InListLoop(_, _, _)
InListLoop(rules, name, i) ==
    IF i >= Len(rules) THEN Returned(FALSE)
    ELSE LET path == rules[i + 1]
             result == commonpath(as_posix(path), as_posix(name))
         IN  IF result.status = "raised" THEN result
             ELSE IF Replace(result.value, "\\", "/") = path THEN Returned(TRUE)
             ELSE InListLoop(rules, name, i + 1)

is_file_in_list(rules, name) == InListLoop(rules, name, 0)

\* In Python "a and (b or not c)" evaluates b only when a is true, and c only
\* when b is false; an exception in b or c ends the call.
is_source_or_ignored(name, exts, ign, not_ign) ==
    IF ~(\E k \in 1..Len(exts) : exts[k] = LStrip(suffix(name), "."))
    THEN Returned(FALSE)
    ELSE LET kept == is_file_in_list(not_ign, name)
         IN  IF kept.status = "raised" THEN kept
             ELSE IF kept.value THEN Returned(TRUE)
             ELSE LET dropped == is_file_in_list(ign, name)
                  IN  IF dropped.status = "raised" THEN dropped
                      ELSE Returned(~dropped.value)

\* Lists of at most two rules.
ListsUpToTwo(S) == {<<>>} \cup {<<r>> : r \in S} \cup {<<r, q>> : r \in S, q \in S}

RuleStrings == SeqsUpTo(PathChars, MaxRuleLen) \cup BackslashPaths

PathStrings == SeqsUpTo(PathChars, MaxPathLen) \cup BackslashPaths

InitInList ==
    /\ paths \in ListsUpToTwo(RuleStrings)
    /\ file_name \in PathStrings
    /\ ext_list = <<>>
    /\ ignored = <<>>
    /\ not_ignored = <<>>
    /\ filter_out = Idle
    /\ numbers = <<>>
    /\ cons_out = Idle
    /\ heap = [o \in ObjIds |-> <<>>]
    /\ file = NoFile
    /\ held = {}
    /\ ret = NoCall
    /\ edits = 0
    /\ contents = [readable |-> FALSE, bytes |-> <<>>]
    /\ offset = 0
    /\ pos_out = Idle

\* is_file_in_list(paths, file_name, prompt)
CallIsFileInList ==
    /\ filter_out = Idle
    /\ filter_out' = is_file_in_list(paths, file_name)
    /\ UNCHANGED <<paths, file_name, ext_list, ignored, not_ignored>>

\* File names with a directory and an extension.
LongNames == {<<"a", "/", "a", ".", "a">>, <<"a", ".", "a", "/", "a">>}

ExtLists == {<<>>, <<<<"a">>>>, <<<<"A">>>>, <<<<>>>>, <<<<"a">>, <<"A">>>>}

RuleSamples ==
    {<<>>, <<"a">>, <<"a", "/">>, <<"/", "a">>, <<"A">>, <<"a", ".", "a">>}

ListsUpToOne(S) == {<<>>} \cup {<<r>> : r \in S}

InitSource ==
    /\ paths = <<>>
    /\ file_name \in SeqsUpTo(NameChars, MaxNameLen) \cup LongNames
    /\ ext_list \in ExtLists
    /\ ignored \in ListsUpToOne(RuleSamples)
    /\ not_ignored \in ListsUpToOne(RuleSamples)
    /\ filter_out = Idle
    /\ numbers = <<>>
    /\ cons_out = Idle
    /\ heap = [o \in ObjIds |-> <<>>]
    /\ file = NoFile
    /\ held = {}
    /\ ret = NoCall
    /\ edits = 0
    /\ contents = [readable |-> FALSE, bytes |-> <<>>]
    /\ offset = 0
    /\ pos_out = Idle

\* is_source_or_ignored(file_name, ext_list, ignored, not_ignored)
CallIsSourceOrIgnored ==
    /\ filter_out = Idle
    /\ filter_out' = is_source_or_ignored(file_name, ext_list, ignored, not_ignored)
    /\ UNCHANGED <<paths, file_name, ext_list, ignored, not_ignored>>

IsAbs(p) == p # <<>> /\ p[1] = "/"

\* The path segments of p: what lies between its separators, without the
\* empty and the "." segments.
Segments(p) == SelectSeq(Split(p, "/"), NotCurdir)

\* The segments of p, the root counted as the first segment of an absolute path.
RootedSegments(p) == (IF IsAbs(p) THEN <<<<"/">>>> ELSE <<>>) \o Segments(p)

IsLeadingRun(a, b) == Len(a) <= Len(b) /\ SubSeq(b, 1, Len(a)) = a

\* A rule written the way commonpath writes its result: one leading slash
\* at most, no trailing or doubled slash, no "." segment, no backslash.
Canonical(r) ==
    /\ r = (IF IsAbs(r) THEN <<"/">> ELSE <<>>) \o Join(Segments(r), "/")
    /\ \A i \in 1..Len(r) : r[i] # "\\"

RuleMatches(r, f) ==
    /\ IsAbs(r) = IsAbs(f)
    /\ Canonical(r)
    /\ IsLeadingRun(Segments(r), Segments(f))

\* The rules that end the scan: a match, or a rule that is absolute when the
\* file path is relative (or relative when it is absolute).
Deciding(rules, f) ==
    {i \in 1..Len(rules) : IsAbs(rules[i]) # IsAbs(f) \/ RuleMatches(rules[i], f)}

\* C7 as stated, read on the calls that return: is_file_in_list returns true
\* exactly when the segments of some rule are a leading run of the segments
\* of the file path.
C7_LeadingRunOfSegments ==
    filter_out.status = "returned" =>
        (filter_out.value <=>
            \E i \in 1..Len(paths) :
                IsLeadingRun(RootedSegments(paths[i]), RootedSegments(file_name)))

\* C7 as amended: is_file_in_list scans the rules in order and compares each
\* rule as written with the common segment-wise prefix.  It returns true at
\* the first rule that is written canonically and whose segments are a
\* leading run of the file path's segments, raises ValueError at the first
\* rule that is absolute when the file path is relative (or the reverse),
\* whichever comes first, and returns false when there is neither.  Rule "a"
\* matches "a/a" and "a" but not "aa"; rule "a/" matches nothing.
C7_CanonicalLeadingRun ==
    /\ filter_out # Idle =>
           LET D == Deciding(paths, file_name)
           IN  IF D = {} THEN filter_out = Returned(FALSE)
               ELSE IF RuleMatches(paths[Min(D)], file_name)
                    THEN filter_out = Returned(TRUE)
                    ELSE filter_out = Raised("ValueError")
    /\ filter_out # Idle =>
           /\ is_file_in_list(<<<<"a">>>>, <<"a", "/", "a">>) = Returned(TRUE)
           /\ is_file_in_list(<<<<"a">>>>, <<"a">>) = Returned(TRUE)
           /\ is_file_in_list(<<<<"a">>>>, <<"a", "a">>) = Returned(FALSE)
           /\ is_file_in_list(<<<<"a", "/">>>>, <<"a", "/", "a">>) = Returned(FALSE)

C7_Witness ==
    /\ paths = <<<<"a", "/">>, <<"a">>>>
    /\ file_name = <<"a", "/", "a">>
    /\ filter_out = Returned(TRUE)

\* C8: the Inclusion Filter never fails: is_file_in_list returns a boolean
\* for every rule list and file path, and false for the empty rule list.
C8_NeverFails ==
    filter_out # Idle =>
        /\ filter_out.status = "returned"
        /\ filter_out.value \in BOOLEAN
        /\ paths = <<>> => filter_out.value = FALSE

\* The final extension of a path: what follows the last dot of its last
\* segment, when that dot is neither the first nor the last character.
FinalExtension(p) ==
    LET segs == Segments(p)
        name == IF segs = <<>> THEN <<>> ELSE segs[Len(segs)]
        dots == {i \in 2..(Len(name) - 1) : name[i] = "."}
    IN  IF dots = {} \/ name[Len(name)] = "." THEN <<>>
        ELSE IF \E i \in 1..Len(name) : name[i] = "." /\ i > Max(dots) THEN <<>>
        ELSE SubSeq(name, Max(dots) + 1, Len(name))

MatchesSome(rules, f) == \E i \in 1..Len(rules) : RuleMatches(rules[i], f)

\* C6: is_source_or_ignored returns true exactly when the final extension is
\* in extensions and the path matches a not_ignored rule or no ignored rule.
C6_Decision ==
    filter_out # Idle =>
        filter_out =
            Returned(/\ \E k \in 1..Len(ext_list) :
                            ext_list[k] = FinalExtension(file_name)
                     /\ \/ MatchesSome(not_ignored, file_name)
                        \/ ~MatchesSome(ignored, file_name))

---------------------------------------------------------------------------
(* Offset-to-Position Translator: get_line_cnt_from_cols                    *)

MaxContentLen == 5
MaxOffset == 6
MaxBack == 2

Bytes == {"x", "\n", "\r"}

\* The files a path may name: readable with some bytes, or not readable.
Files ==
    {[readable |-> TRUE, bytes |-> b] : b \in SeqsUpTo(Bytes, MaxContentLen)}
        \cup {[readable |-> FALSE, bytes |-> <<>>]}

\* bytes[:k] of Python: the first k bytes, all of them when k exceeds the
\* length, and all but the last -k when k is negative.
SliceTo(b, k) ==
    IF k >= 0 THEN SubSeq(b, 1, IF k < Len(b) THEN k ELSE Len(b))
    ELSE SubSeq(b, 1, IF Len(b) + k > 0 THEN Len(b) + k ELSE 0)

\* bytes.count(ch)
Count(b, ch) == Cardinality({i \in 1..Len(b) : b[i] = ch})

\* A plausible slip: the whole file is searched, not the bytes before offset.
get_line_cnt_from_cols_whole_file(f, k) ==
    IF ~f.readable THEN Raised("OSError")
    ELSE Returned(<<Count(f.bytes, "\n") + 1, k - RFind(f.bytes, "\n")>>)

\* get_line_cnt_from_cols(file_path, offset), f the file that file_path names.
get_line_cnt_from_cols(f, k) ==
    IF ~f.readable THEN Raised("OSError")
    ELSE LET prefix == SliceTo(f.bytes, k)
         IN  Returned(<<Count(prefix, "\n") + 1, k - RFind(prefix, "\n")>>)

InitPos ==
    /\ contents \in Files
    /\ offset = 0
    /\ pos_out = Idle
    /\ numbers = <<>>
    /\ cons_out = Idle
    /\ heap = [o \in ObjIds |-> <<>>]
    /\ file = NoFile
    /\ held = {}
    /\ ret = NoCall
    /\ edits = 0
    /\ paths = <<>>
    /\ file_name = <<>>
    /\ ext_list = <<>>
    /\ ignored = <<>>
    /\ not_ignored = <<>>
    /\ filter_out = Idle

CallGetLineCntFromCols ==
    /\ pos_out = Idle
    /\ \E k \in (0 - MaxBack)..MaxOffset :
           /\ offset' = k
           /\ pos_out' = get_line_cnt_from_cols(contents, k)
    /\ UNCHANGED contents

\* The 0-based indices below k that hold a newline byte.
NewlinesBefore(b, k) == {i \in 0..(k - 1) : i < Len(b) /\ b[i + 1] = "\n"}

\* C9: for every content C and offset k >= 0 the result is (line, column)
\* with line = 1 + the number of newline bytes among C[0..k-1] and
\* column = k - j, j the index of the last newline strictly before k, or -1;
\* both are at least 1; "ab\ncd" at 4 gives (2, 2) and "hello" at 0 (1, 1).
C9_LineAndColumn ==
    /\ (pos_out # Idle /\ contents.readable /\ offset >= 0) =>
           LET nl == NewlinesBefore(contents.bytes, offset)
               j == IF nl = {} THEN -1 ELSE Max(nl)
           IN  /\ pos_out = Returned(<<1 + Cardinality(nl), offset - j>>)
               /\ pos_out.value[1] >= 1
               /\ pos_out.value[2] >= 1
    /\ pos_out # Idle =>
           /\ get_line_cnt_from_cols(
                  [readable |-> TRUE, bytes |-> <<"x", "x", "\n", "x", "x">>], 4)
                  = Returned(<<2, 2>>)
           /\ get_line_cnt_from_cols(
                  [readable |-> TRUE, bytes |-> <<"x", "x", "x", "x", "x">>], 0)
                  = Returned(<<1, 1>>)

C9_Witness ==
    /\ contents = [readable |-> TRUE, bytes |-> <<"x", "x", "\n", "x", "x">>]
    /\ offset = 4
    /\ pos_out = Returned(<<2, 2>>)

---------------------------------------------------------------------------
(* Specifications: one per component.                                       *)

NextConsolidate == CallConsolidate /\ UNCHANGED <<fileVars, listVars, posVars>>

SpecConsolidate == InitConsolidate /\ [][NextConsolidate]_vars

NextFileObj ==
    /\ \/ Construct
       \/ CallRangeOfChangedLines
       \/ CallSerialize
       \/ CallHasLineChanges
       \/ CallerAppend
       \/ CallerPop
    /\ UNCHANGED <<consVars, listVars, posVars>>

SpecFileObj == InitFileObj /\ [][NextFileObj]_vars

NextInList == CallIsFileInList /\ UNCHANGED <<consVars, fileVars, posVars>>

SpecInList == InitInList /\ [][NextInList]_vars

NextSource == CallIsSourceOrIgnored /\ UNCHANGED <<consVars, fileVars, posVars>>

SpecSource == InitSource /\ [][NextSource]_vars

NextPos ==
    CallGetLineCntFromCols /\ UNCHANGED <<consVars, fileVars, listVars>>

SpecPos == InitPos /\ [][NextPos]_vars

====
